---- MODULE Spec2Model ----
(***************************************************************************)
(* A model of QuoteScraper (scrape_quotes.py): the crawl driver, the page  *)
(* processor, the author resolver with its cache and in-flight registry,   *)
(* and fetch_html with its semaphore, retries and delays.                  *)
(*                                                                         *)
(* Scheduling is asyncio's: one coroutine runs at a time and keeps running *)
(* until it awaits something that is not ready.  The suspension points of  *)
(* the code are asyncio.sleep, the semaphore when no slot is free, the     *)
(* HTTP request, `await inflight` on an unfinished task, and gather.       *)
(***************************************************************************)
EXTENDS Integers, Sequences, FiniteSets, TLC

VARIABLES
    site,               \* the listing pages served so far, in chain order
    max_concurrent,     \* Config.MAX_CONCURRENT_REQUESTS, set by the environment
    pc,                 \* position of scrape_all_quotes / scrape_quotes_page
    next_page_url,      \* scrape_all_quotes: next_page_url
    page_url,           \* scrape_quotes_page: page_url
    page_fetch,         \* index in fetchers of the current page's fetch_html
    page_quotes,        \* scrape_quotes_page: quotes
    author_urls,        \* scrape_quotes_page: author_urls
    quotes,             \* scrape_all_quotes: quotes
    fetchers,           \* every fetch_html call made so far, in start order
    calls,              \* the get_author_info coroutines gather runs
    author_cache,       \* self._author_cache
    author_inflight,    \* self._author_inflight
    author_cache_lock,  \* self._author_cache_lock: 0 or the holder
    semaphore           \* self._semaphore: free slots

vars == <<site, max_concurrent, pc, next_page_url, page_url, page_fetch, page_quotes,
          author_urls, quotes, fetchers, calls, author_cache, author_inflight,
          author_cache_lock, semaphore>>

-----------------------------------------------------------------------------
(* Values *)

None == "None"

\* an absent URL (Optional[str] = None)
NoUrl == [host |-> "", path |-> <<>>]

\* an absent href attribute / no matching element
NoHref == [kind |-> "none", host |-> "", path |-> <<>>]

\* href="/a/b": an absolute-path reference
AbsPath(p) == [kind |-> "path", host |-> "", path |-> p]

\* href="https://h/a/b": an absolute URL
AbsUrl(h, p) == [kind |-> "abs", host |-> h, path |-> p]

\* href="a/b": a relative-path reference
RelPath(p) == [kind |-> "rel", host |-> "", path |-> p]

\* Config.BASE_URL = 'https://quotes.toscrape.com/'; a path is its sequence of
\* segments, the last one empty when the URL ends with a slash
BASE_URL == [host |-> "quotes.toscrape.com", path |-> <<"">>]

max_retries == 3

\* urllib.parse.urljoin(base, href)
urljoin(base, href) ==
    IF href.kind = "abs" THEN [host |-> href.host, path |-> href.path]
    ELSE IF href.kind = "path" THEN [host |-> base.host, path |-> href.path]
    ELSE [host |-> base.host,
          path |-> SubSeq(base.path, 1, Len(base.path) - 1) \o href.path]

\* default_info of _fetch_author_info, and the literal get_author_info returns
\* for an absent URL
default_info ==
    [author_full_name |-> None, author_born_date |-> None,
     author_born_location |-> None]

-----------------------------------------------------------------------------
(* The server: listing pages and author pages *)

MaxPages == 2

\* the values of MAX_CONCURRENT_REQUESTS the environment may set and
\* Config.validate lets through: 0..MaxSlots
MaxSlots == 2

OtherHost == "example.com"

Frag(text, author, tags, href) ==
    [text |-> text, author |-> author, tags |-> tags, href |-> href]

AuthorHref(a) == AbsPath(<<"author", a>>)

QA == Frag("q1", "Ann", <<"t1", "t2">>, AuthorHref("a1"))
QB == Frag("q2", "Bob", <<"t2">>, AuthorHref("a2"))
\* no author link in the fragment
QN == Frag("q3", "Ann", <<>>, NoHref)
\* a link that span a[href^='/author/'] does not select
QL == Frag("q4", "Bob", <<"t3">>, AbsUrl(OtherHost, <<"author", "a2">>))
\* fragments without span.text or without small.author
QX == Frag(None, "Bob", <<"t1">>, AuthorHref("a2"))
QY == Frag("q5", None, <<>>, AuthorHref("a1"))

PageFrags ==
    { <<QA, QX, QN, QA>>, <<QB, QA>>, <<QL, QY>> }

MaxFrags == CHOOSE n \in 0..8 :
    /\ \A fs \in PageFrags : Len(fs) <= n
    /\ \E fs \in PageFrags : Len(fs) = n

\* the li.next link of page i: to the same host, or to another one
NextHrefs(i) ==
    { AbsPath(<<"page", ToString(i + 1), "">>),
      AbsUrl(OtherHost, <<"page", ToString(i + 1), "">>) }

\* what the server may hold as page i of the chain: page i links to page i+1,
\* and a chain has at most MaxPages pages
PagesAt(i) ==
    { [frags |-> fs, next |-> nx] :
        fs \in PageFrags,
        nx \in IF i < MaxPages THEN NextHrefs(i) \cup {NoHref} ELSE {NoHref} }

\* the author page the server holds for a URL: the texts of h3.author-title,
\* span.author-born-date and span.author-born-location, None where the page
\* has no such element
AuthorPage(url) ==
    LET a == url.path[Len(url.path)] IN
    IF a = "a1" THEN [title |-> "Ann A", born_date |-> "d1", born_location |-> "l1"]
    ELSE [title |-> "Bob B", born_date |-> None, born_location |-> "l2"]

-----------------------------------------------------------------------------
(* fetch_html *)

\* html: Optional[str]; a body names the URL it was served for and the number
\* of the attempt that received it
NoHtml == [some |-> FALSE, url |-> NoUrl, serial |-> 0]

Body(url, n) == [some |-> TRUE, url |-> url, serial |-> n]

\* what the transport does with one GET: a response with a status, or
\* aiohttp.ClientError / asyncio.TimeoutError
Responses ==
    { [error |-> FALSE, status |-> 200],
      [error |-> FALSE, status |-> 404],
      [error |-> TRUE, status |-> 0] }

Event(ev, n) == [ev |-> ev, n |-> n]

\* _fetch_author_info after get_soup: the parsed fields, or default_info
parse_author(html) ==
    IF ~html.some THEN default_info
    ELSE LET page == AuthorPage(html.url) IN
         [author_full_name |-> page.title,
          author_born_date |-> page.born_date,
          author_born_location |-> page.born_location]

\* a fetch_html call about to make its first attempt
NewFetch(kind, url) ==
    [kind |-> kind, url |-> url, pc |-> "sleep", attempt |-> 1, log |-> <<>>,
     html |-> NoHtml, info |-> default_info]

\* fetch_html returns html; for an author task _fetch_author_info then parses
Return(f, html) ==
    [f EXCEPT !.pc = "done", !.html = html, !.info = parse_author(html)]

\* a call that has returned and whose result has been consumed: its frame and
\* its locals are gone, what stays is that it was made, and for which URL
released(f) == [NewFetch(f.kind, f.url) EXCEPT !.pc = "released"]

\* a success whose body is dropped on the way out of the loop
response_text_Lost(f) == NoHtml

\* `return await response.text()`: the body this attempt received
response_text(f) == Body(f.url, f.attempt)

\* no status check: every response counts as a success
bad_status_Never(status) == FALSE

\* `if response.status != 200`
bad_status(status) == status # 200

\* the exhaustion test off by one
last_attempt_OffByOne(attempt) == attempt = max_retries + 1

\* `if attempt == max_retries`
last_attempt(attempt) == attempt = max_retries

\* the body of `async with self.session.get(url) as response` and the except
\* clause, for the response the transport gives
respond(f, resp) ==
    LET g == [f EXCEPT !.log = Append(@,
                 Event(IF resp.error THEN "error"
                       ELSE IF resp.status = 200 THEN "ok" ELSE "status",
                       f.attempt))] IN
    IF resp.error
    THEN IF last_attempt(f.attempt) THEN Return(g, NoHtml)
         ELSE [g EXCEPT !.pc = "backoff"]
    ELSE IF bad_status(resp.status) THEN Return(g, NoHtml)
    ELSE Return(g, response_text(f))

\* a scheduler that could switch coroutines between the two lock sections
RunningPcs_YieldAfterPop == {"locked1", "resume", "locked2", "locked3"}

\* the positions of get_author_info from which the coroutine runs on without
\* suspending: the lock is never held across an await, so `async with` enters
\* it without a switch
RunningPcs == {"locked1", "resume", "locked2", "popped", "locked3"}

\* the coroutines, other than i, that are running (not at a suspension point)
OthersSuspended(i) ==
    \A j \in DOMAIN calls : j # i => calls[j].pc \notin RunningPcs

AllSuspended == OthersSuspended(0)

\* a semaphore that admits every caller
slot_free_Always == TRUE

\* `async with self._semaphore` enters without suspending when a slot is free
slot_free == semaphore > 0

\* await asyncio.sleep(Config.RATE_LIMIT_DELAY_SECONDS) is over; the semaphore
\* is entered at once when a slot is free
FetchSleep(k) ==
    /\ AllSuspended
    /\ fetchers[k].pc = "sleep"
    /\ LET f == [fetchers[k] EXCEPT
                    !.log = Append(@, Event("rate", fetchers[k].attempt))] IN
       IF slot_free
       THEN /\ semaphore' = semaphore - 1
            /\ fetchers' = [fetchers EXCEPT ![k] = [f EXCEPT !.pc = "get"]]
       ELSE /\ semaphore' = semaphore
            /\ fetchers' = [fetchers EXCEPT ![k] = [f EXCEPT !.pc = "acquire"]]
    /\ UNCHANGED <<site, max_concurrent, pc, next_page_url, page_url, page_fetch,
                   page_quotes, author_urls, quotes, calls, author_cache,
                   author_inflight, author_cache_lock>>

\* a call waiting in `async with self._semaphore` gets a released slot
FetchAcquire(k) ==
    /\ AllSuspended
    /\ fetchers[k].pc = "acquire"
    /\ slot_free
    /\ semaphore' = semaphore - 1
    /\ fetchers' = [fetchers EXCEPT ![k].pc = "get"]
    /\ UNCHANGED <<site, max_concurrent, pc, next_page_url, page_url, page_fetch,
                   page_quotes, author_urls, quotes, calls, author_cache,
                   author_inflight, author_cache_lock>>

\* the GET completes or raises; the semaphore slot is released on the way out
FetchRespond(k) ==
    /\ AllSuspended
    /\ fetchers[k].pc = "get"
    /\ \E resp \in Responses :
          fetchers' = [fetchers EXCEPT ![k] = respond(fetchers[k], resp)]
    /\ semaphore' = semaphore + 1
    /\ UNCHANGED <<site, max_concurrent, pc, next_page_url, page_url, page_fetch,
                   page_quotes, author_urls, quotes, calls, author_cache,
                   author_inflight, author_cache_lock>>

\* a backoff of one time unit whatever the attempt
backoff_delay_Constant(attempt) == 1

\* `await asyncio.sleep(attempt)`: the delay after a failed attempt
backoff_delay(attempt) == attempt

\* `for attempt in range(1, max_retries + 1)`
in_range(attempt) == attempt <= max_retries

\* await asyncio.sleep(attempt) is over; the loop goes to its next attempt, or
\* falls out of the range to the final `return None`
FetchBackoff(k) ==
    /\ AllSuspended
    /\ fetchers[k].pc = "backoff"
    /\ LET f == [fetchers[k] EXCEPT
                    !.log = Append(@, Event("backoff",
                                           backoff_delay(fetchers[k].attempt)))] IN
       fetchers' = [fetchers EXCEPT ![k] =
          IF in_range(f.attempt + 1)
          THEN [f EXCEPT !.pc = "sleep", !.attempt = @ + 1]
          ELSE Return(f, NoHtml)]
    /\ UNCHANGED <<site, max_concurrent, pc, next_page_url, page_url, page_fetch,
                   page_quotes, author_urls, quotes, calls, author_cache,
                   author_inflight, author_cache_lock, semaphore>>

-----------------------------------------------------------------------------
(* get_author_info *)

IdleCall == [pc |-> "idle", task |-> 0, info |-> default_info]

\* a truthiness test in place of `is not None`: an all-absent entry is a miss
cache_hit_Truthy(u) ==
    u \in DOMAIN author_cache /\ author_cache[u] # default_info

\* self._author_cache.get(author_url) is not None
cache_hit(u) == u \in DOMAIN author_cache

\* a registry that is never consulted: every caller is a first caller
inflight_get_Never(u) == 0

\* self._author_inflight.get(author_url): the task's index, 0 for None
inflight_get(u) ==
    IF u \in DOMAIN author_inflight THEN author_inflight[u] ELSE 0

\* a finally clause that leaves the entry in the registry
inflight_pop_Keep(u) == author_inflight

\* self._author_inflight.pop(author_url, None)
inflight_pop(u) ==
    [v \in DOMAIN author_inflight \ {u} |-> author_inflight[v]]

\* a cache rebuilt around the entry published last
cache_setdefault_Replace(u, info) == (u :> info)

\* a publish that stores nothing
cache_setdefault_Skip(u, info) == author_cache

\* self._author_cache.setdefault(author_url, info)
cache_setdefault(u, info) ==
    IF u \in DOMAIN author_cache THEN author_cache
    ELSE (u :> info) @@ author_cache

\* a waiter that looks its task up in the registry again when it resumes, and
\* falls back to the default once the entry is gone
await_inflight_Relookup(i) ==
    IF inflight_get(author_urls[i]) = calls[i].task
    THEN fetchers[calls[i].task].info ELSE default_info

\* `info = await inflight`: the result of the awaited task
await_inflight(i) == fetchers[calls[i].task].info

\* no early return: an absent URL is resolved like any other
url_absent_Never(u) == FALSE

\* `if not author_url`
url_absent(u) == u = NoUrl

\* the coroutine starts: `if not author_url` returns the literal; otherwise it
\* enters `async with self._author_cache_lock`
CallStart(i) ==
    /\ OthersSuspended(i)
    /\ calls[i].pc = "start"
    /\ IF url_absent(author_urls[i])
       THEN /\ calls' = [calls EXCEPT ![i].pc = "done", ![i].info = default_info]
            /\ UNCHANGED author_cache_lock
       ELSE /\ author_cache_lock = 0
            /\ author_cache_lock' = i
            /\ calls' = [calls EXCEPT ![i].pc = "locked1"]
    /\ UNCHANGED <<site, max_concurrent, pc, next_page_url, page_url, page_fetch,
                   page_quotes, author_urls, quotes, fetchers, author_cache,
                   author_inflight, semaphore>>

\* under the lock: the cache check, then the in-flight lookup or create_task;
\* the lock is released and a cache miss goes on to `await inflight`
CallLookup(i) ==
    LET u == author_urls[i] IN
    /\ OthersSuspended(i)
    /\ calls[i].pc = "locked1"
    /\ author_cache_lock' = 0
    /\ IF cache_hit(u)
       THEN /\ calls' = [calls EXCEPT ![i].pc = "done", ![i].info = author_cache[u]]
            /\ UNCHANGED <<fetchers, author_inflight>>
       ELSE IF inflight_get(u) = 0
       THEN /\ fetchers' = Append(fetchers, NewFetch("author", u))
            /\ author_inflight' = (u :> (Len(fetchers) + 1)) @@ author_inflight
            /\ calls' = [calls EXCEPT ![i].pc = "await",
                                      ![i].task = Len(fetchers) + 1]
       ELSE /\ calls' = [calls EXCEPT
                  ![i].pc = IF fetchers[inflight_get(u)].pc = "done"
                            THEN "resume" ELSE "await",
                  ![i].task = inflight_get(u)]
            /\ UNCHANGED <<fetchers, author_inflight>>
    /\ UNCHANGED <<site, max_concurrent, pc, next_page_url, page_url, page_fetch,
                   page_quotes, author_urls, quotes, author_cache, semaphore>>

\* the awaited task is done: info is its result, and the finally clause enters
\* the lock
CallResume(i) ==
    /\ OthersSuspended(i)
    /\ \/ calls[i].pc = "resume"
       \/ calls[i].pc = "await" /\ fetchers[calls[i].task].pc = "done"
    /\ author_cache_lock = 0
    /\ author_cache_lock' = i
    /\ calls' = [calls EXCEPT ![i].pc = "locked2", ![i].info = await_inflight(i)]
    /\ UNCHANGED <<site, max_concurrent, pc, next_page_url, page_url, page_fetch,
                   page_quotes, author_urls, quotes, fetchers, author_cache,
                   author_inflight, semaphore>>

\* finally, under the lock: the in-flight entry is popped; the lock is released
CallPop(i) ==
    /\ OthersSuspended(i)
    /\ calls[i].pc = "locked2"
    /\ author_inflight' = inflight_pop(author_urls[i])
    /\ author_cache_lock' = 0
    /\ calls' = [calls EXCEPT ![i].pc = "popped"]
    /\ UNCHANGED <<site, max_concurrent, pc, next_page_url, page_url, page_fetch,
                   page_quotes, author_urls, quotes, fetchers, author_cache,
                   semaphore>>

\* the second `async with self._author_cache_lock` is entered
CallRelock(i) ==
    /\ OthersSuspended(i)
    /\ calls[i].pc = "popped"
    /\ author_cache_lock = 0
    /\ author_cache_lock' = i
    /\ calls' = [calls EXCEPT ![i].pc = "locked3"]
    /\ UNCHANGED <<site, max_concurrent, pc, next_page_url, page_url, page_fetch,
                   page_quotes, author_urls, quotes, fetchers, author_cache,
                   author_inflight, semaphore>>

\* under the lock: setdefault; the lock is released and info is returned
CallPublish(i) ==
    /\ OthersSuspended(i)
    /\ calls[i].pc = "locked3"
    /\ author_cache' = cache_setdefault(author_urls[i], calls[i].info)
    /\ author_cache_lock' = 0
    /\ calls' = [calls EXCEPT ![i].pc = "done"]
    /\ UNCHANGED <<site, max_concurrent, pc, next_page_url, page_url, page_fetch,
                   page_quotes, author_urls, quotes, fetchers, author_inflight,
                   semaphore>>

-----------------------------------------------------------------------------
(* scrape_quotes_page and scrape_all_quotes *)

\* `if not quote_text_el or not author_name_el: continue`
kept(frag) == frag.text # None /\ frag.author # None

\* quote_block.select_one("span a[href^='/author/']")
select_author_link(frag) ==
    IF /\ frag.href.kind = "path"
       /\ Len(frag.href.path) >= 2
       /\ frag.href.path[1] = "author"
    THEN frag.href ELSE NoHref

\* the author link joined to the URL of the page it stands on
author_base_Page(url) == url

\* the base the author link is joined to: urljoin(Config.BASE_URL, ...)
author_base(url) == BASE_URL

\* author_url of one kept fragment of the page at url
author_url_of(url, frag) ==
    IF select_author_link(frag) # NoHref
    THEN urljoin(author_base(url), select_author_link(frag))
    ELSE NoUrl

\* the dict appended to quotes for one kept fragment
new_quote(frag) ==
    [quote_text |-> frag.text, author_name |-> frag.author, tags |-> frag.tags,
     author_full_name |-> None, author_born_date |-> None,
     author_born_location |-> None]

\* quote.update(info)
update(quote, info) ==
    [quote EXCEPT !.author_full_name = info.author_full_name,
                  !.author_born_date = info.author_born_date,
                  !.author_born_location = info.author_born_location]

\* a loop that stops at the first fragment it cannot use
kept_frags_UntilSkip(page) ==
    LET bad == { j \in DOMAIN page.frags : ~kept(page.frags[j]) } IN
    IF bad = {} THEN page.frags
    ELSE SubSeq(page.frags, 1, (CHOOSE j \in bad : \A k \in bad : j <= k) - 1)

\* the fragments of the page the loop keeps, in document order
kept_frags(page) == SelectSeq(page.frags, kept)

\* the infos merged in the opposite order
zip_update_Reversed(qs, infos) ==
    [i \in 1..Len(qs) |-> update(qs[i], infos[Len(qs) + 1 - i])]

\* `for quote, info in zip(quotes, author_infos): quote.update(info)`
zip_update(qs, infos) ==
    [i \in 1..Len(qs) |-> update(qs[i], infos[i])]

\* the list replaced by the page's quotes instead of extended
extend_Replace(qs, more) == more

\* quotes.extend(page_quotes)
extend(qs, more) == qs \o more

\* li.next a, joined to page_url
next_url_of(url, page) ==
    IF page.next # NoHref THEN urljoin(url, page.next) ELSE NoUrl

\* a failed page handed back with its own URL as the next page
page_failure_Retry(url) == [quotes |-> <<>>, next |-> url]

\* `if soup is None: return [], None`
page_failure(url) == [quotes |-> <<>>, next |-> NoUrl]

\* a gather that returns with the first result
gather_done_First ==
    \/ Len(author_urls) = 0
    \/ \E i \in 1..Len(author_urls) : calls[i].pc = "done"

\* `await asyncio.gather(...)` returns: every coroutine it runs has returned
gather_done == \A i \in 1..Len(author_urls) : calls[i].pc = "done"

\* `while next_page_url`: scrape_quotes_page is called and starts the page's
\* fetch, or the crawl returns
LoopTest ==
    /\ AllSuspended
    /\ pc = "loop"
    /\ IF next_page_url # NoUrl
       THEN /\ page_url' = next_page_url
            /\ fetchers' = Append(fetchers, NewFetch("page", next_page_url))
            /\ page_fetch' = Len(fetchers) + 1
            /\ page_quotes' = <<>>
            /\ author_urls' = <<>>
            /\ calls' = [i \in DOMAIN calls |-> IdleCall]
            /\ pc' = "fetch"
       ELSE /\ pc' = "done"
            /\ UNCHANGED <<page_url, fetchers, page_fetch, page_quotes,
                           author_urls, calls>>
    /\ UNCHANGED <<site, max_concurrent, next_page_url, quotes, author_cache,
                   author_inflight, author_cache_lock, semaphore>>

\* get_soup returned: no soup ends the page with ([], None); otherwise the
\* document the server sent is parsed and gather starts one get_author_info
\* per kept fragment
PageFetched ==
    /\ AllSuspended
    /\ pc = "fetch"
    /\ fetchers[page_fetch].pc = "done"
    /\ IF ~fetchers[page_fetch].html.some
       THEN /\ next_page_url' = page_failure(page_url).next
            /\ quotes' = extend(quotes, page_failure(page_url).quotes)
            /\ pc' = "loop"
            /\ fetchers' = [fetchers EXCEPT ![page_fetch] = released(@)]
            /\ UNCHANGED <<site, page_quotes, author_urls, calls>>
       ELSE \E page \in PagesAt(Len(site) + 1) :
            LET fs == kept_frags(page) IN
            /\ site' = Append(site, page)
            /\ page_quotes' = [i \in 1..Len(fs) |-> new_quote(fs[i])]
            /\ author_urls' = [i \in 1..Len(fs) |-> author_url_of(page_url, fs[i])]
            /\ calls' = [i \in DOMAIN calls |->
                  IF i <= Len(fs) THEN [IdleCall EXCEPT !.pc = "start"]
                  ELSE IdleCall]
            /\ pc' = "gather"
            /\ UNCHANGED <<next_page_url, fetchers, quotes>>
    /\ UNCHANGED <<max_concurrent, page_url, page_fetch,
                   author_cache, author_inflight, author_cache_lock, semaphore>>

\* gather returned: the infos are merged in order, the next link is read, and
\* scrape_all_quotes extends its list with the page's quotes; the page's
\* fetches have all returned and been consumed
PageAssembled ==
    /\ AllSuspended
    /\ pc = "gather"
    /\ gather_done
    /\ page_quotes' =
          zip_update(page_quotes, [i \in 1..Len(author_urls) |-> calls[i].info])
    /\ quotes' = extend(quotes, page_quotes')
    /\ next_page_url' = next_url_of(page_url, site[Len(site)])
    /\ pc' = "loop"
    /\ fetchers' = [k \in DOMAIN fetchers |-> released(fetchers[k])]
    /\ UNCHANGED <<site, max_concurrent, page_url, page_fetch, author_urls,
                   calls, author_cache, author_inflight, author_cache_lock,
                   semaphore>>

-----------------------------------------------------------------------------

Init ==
    /\ site = <<>>
    /\ max_concurrent \in 0..MaxSlots
    /\ pc = "loop"
    /\ next_page_url = BASE_URL
    /\ page_url = NoUrl
    /\ page_fetch = 0
    /\ page_quotes = <<>>
    /\ author_urls = <<>>
    /\ quotes = <<>>
    /\ fetchers = <<>>
    /\ calls = [i \in 1..MaxFrags |-> IdleCall]
    /\ author_cache = <<>>
    /\ author_inflight = <<>>
    /\ author_cache_lock = 0
    /\ semaphore = max_concurrent

Next ==
    \/ LoopTest
    \/ PageFetched
    \/ PageAssembled
    \/ \E k \in DOMAIN fetchers : FetchSleep(k)
    \/ \E k \in DOMAIN fetchers : FetchAcquire(k)
    \/ \E k \in DOMAIN fetchers : FetchRespond(k)
    \/ \E k \in DOMAIN fetchers : FetchBackoff(k)
    \/ \E i \in DOMAIN calls : CallStart(i)
    \/ \E i \in DOMAIN calls : CallLookup(i)
    \/ \E i \in DOMAIN calls : CallResume(i)
    \/ \E i \in DOMAIN calls : CallPop(i)
    \/ \E i \in DOMAIN calls : CallRelock(i)
    \/ \E i \in DOMAIN calls : CallPublish(i)

Spec == Init /\ [][Next]_vars

\* the event loop runs every coroutine that is ready, every sleep ends, and
\* every GET ends with a response, an error or the configured timeout
FairSpec == Spec /\ WF_vars(Next)

-----------------------------------------------------------------------------
(* Properties *)

\* the _fetch_author_info tasks started so far for the URL u
AuthorFetches(u) ==
    { k \in DOMAIN fetchers : fetchers[k].kind = "author" /\ fetchers[k].url = u }

\* the get_author_info calls of the current page that are past the lookup of a
\* present URL that missed the cache
PastMiss(i) == calls[i].pc \in {"await", "resume", "locked2", "popped", "locked3"}

\* the URLs an author fetch can be about
SeenUrls == { fetchers[k].url : k \in DOMAIN fetchers } \cup
            { author_urls[i] : i \in DOMAIN author_urls }

\* C1: for every author URL at most one _fetch_author_info task is ever
\* started in a run, and the get_author_info calls that missed the cache for a
\* URL, however many are in progress together, share exactly one such task.
C1_OneFetchPerUrl ==
    /\ \A u \in SeenUrls : Cardinality(AuthorFetches(u)) <= 1
    /\ \A i \in DOMAIN author_urls :
          PastMiss(i) => /\ Cardinality(AuthorFetches(author_urls[i])) = 1
                         /\ calls[i].task \in AuthorFetches(author_urls[i])

\* two calls of one page wait for the same URL's fetch at the same time
C1_Witness ==
    \E i, j \in DOMAIN author_urls :
        /\ i # j
        /\ author_urls[i] = author_urls[j]
        /\ calls[i].pc = "await" /\ calls[j].pc = "await"
        /\ fetchers[calls[i].task].pc = "get"

\* the calls that have their result: info is assigned
HasInfo(i) == calls[i].pc \in {"locked2", "popped", "locked3", "done"}

\* C2: the get_author_info calls of one gather that are about the same author
\* URL all get the same AuthorInfo value, the resolved one or the default one.
C2_SameInfoForSameUrl ==
    \A i, j \in DOMAIN author_urls :
        (/\ HasInfo(i) /\ HasInfo(j)
         /\ author_urls[i] = author_urls[j]) => calls[i].info = calls[j].info

\* two calls that awaited the same successful fetch have both returned its info
C2_Witness ==
    \E i, j \in DOMAIN author_urls :
        /\ i # j
        /\ author_urls[i] = author_urls[j]
        /\ calls[i].pc = "done" /\ calls[j].pc = "done"
        /\ calls[i].task # 0 /\ calls[i].task = calls[j].task
        /\ calls[i].info # default_info
        /\ pc = "gather"

\* the calls of the current page that have returned a result for u
Returned(u) ==
    { i \in DOMAIN author_urls : author_urls[i] = u /\ calls[i].pc = "done" }

\* C3: when the fetch of an author page fails, the all-absent info is what the
\* awaiting call returns and what the cache then holds for the URL; while the
\* cache holds it, no other fetch of the URL is started and every call for the
\* URL returns the all-absent info.
C3_FailureIsCached ==
    /\ \A i \in DOMAIN author_urls :
          (/\ calls[i].pc = "done" /\ calls[i].task # 0
           /\ fetchers[calls[i].task].pc = "done"
           /\ ~fetchers[calls[i].task].html.some)
          => /\ calls[i].info = default_info
             /\ author_urls[i] \in DOMAIN author_cache
             /\ author_cache[author_urls[i]] = default_info
    /\ \A u \in DOMAIN author_cache :
          author_cache[u] = default_info
          => /\ Cardinality(AuthorFetches(u)) = 1
             /\ \A i \in Returned(u) : calls[i].info = default_info

\* on the second page a call returns, from the cache, the all-absent info that
\* a failed fetch of the first page left there
C3_Witness ==
    /\ Len(site) = 2
    /\ \E i \in DOMAIN author_urls :
          /\ author_urls[i] # NoUrl
          /\ calls[i].pc = "done" /\ calls[i].task = 0
          /\ author_cache[author_urls[i]] = default_info
          /\ \E k \in AuthorFetches(author_urls[i]) : fetchers[k].pc = "released"

\* the fetch_html calls whose GET is in flight (inside the semaphore)
InFlight == { k \in DOMAIN fetchers : fetchers[k].pc = "get" }

\* C4: the number of GET requests in flight never exceeds
\* MAX_CONCURRENT_REQUESTS; the free slots are what the requests in flight
\* leave, so a call is admitted only into a free slot and waits otherwise.
C4_BoundedInFlight ==
    /\ Cardinality(InFlight) <= max_concurrent
    /\ semaphore = max_concurrent - Cardinality(InFlight)

\* every slot is taken and a further call waits for one
C4_Witness ==
    /\ max_concurrent >= 1
    /\ Cardinality(InFlight) = max_concurrent
    /\ \E k \in DOMAIN fetchers : fetchers[k].pc = "acquire"

IsResult(e) == e.ev \in {"ok", "status", "error"}

\* what the attempts of a fetch_html call have met so far, in order
Results(f) == SelectSeq(f.log, IsResult)

AllErrors(r, n) == \A j \in 1..n : r[j].ev = "error"

\* C5: an attempt of fetch_html that gets a status other than 200 ends the call
\* with a failure at once, whatever its number: nothing follows it, no further
\* attempt and no delay.
C5_BadStatusEndsCall ==
    \A k \in DOMAIN fetchers :
        LET f == fetchers[k] IN
        \A p \in 1..Len(f.log) :
            f.log[p].ev = "status"
            => /\ p = Len(f.log)
               /\ f.pc = "done"
               /\ ~f.html.some
               /\ f.attempt = f.log[p].n

\* a call ended by a bad status on its second attempt, with one attempt left
C5_Witness ==
    \E k \in DOMAIN fetchers :
        LET f == fetchers[k] IN
        /\ f.pc = "done" /\ Len(f.log) > 0
        /\ f.log[Len(f.log)] = Event("status", 2)

\* C6: when attempts 1..k-1 of fetch_html meet a transport error and attempt k
\* gets status 200, the call returns the body of attempt k and has made
\* exactly k attempts.
C6_SuccessAfterErrors ==
    \A k \in DOMAIN fetchers :
        LET f == fetchers[k]
            r == Results(f)
            n == Len(r) IN
        (n >= 1 /\ r[n].ev = "ok" /\ AllErrors(r, n - 1))
        => /\ f.pc = "done"
           /\ f.html = Body(f.url, n)
           /\ f.attempt = n
           /\ n <= max_retries
           /\ f.log[Len(f.log)] = r[n]

\* two transport errors, then the third attempt's body is returned
C6_Witness ==
    \E k \in DOMAIN fetchers :
        LET f == fetchers[k]
            r == Results(f) IN
        /\ Len(r) = 3 /\ r[1].ev = "error" /\ r[2].ev = "error" /\ r[3].ev = "ok"
        /\ f.pc = "done" /\ f.html.some /\ f.html.serial = 3

\* C7: fetch_html never makes more than max_retries attempts, and when all of
\* them meet a transport error the call has returned a failure right after
\* the last one.
C7_ExhaustionReturnsFailure ==
    \A k \in DOMAIN fetchers :
        LET f == fetchers[k]
            r == Results(f)
            n == Len(r) IN
        /\ n <= max_retries
        /\ f.attempt <= max_retries
        /\ f.pc \in {"sleep", "acquire", "get", "backoff", "done", "released"}
        /\ (n = max_retries /\ AllErrors(r, n))
           => /\ f.pc = "done"
              /\ ~f.html.some
              /\ f.log[Len(f.log)] = r[n]

\* a call that has returned after max_retries transport errors
C7_Witness ==
    \E k \in DOMAIN fetchers :
        LET f == fetchers[k]
            r == Results(f) IN
        /\ Len(r) = max_retries /\ AllErrors(r, max_retries)
        /\ f.pc = "done"

\* the fragments of the page being processed that the parse kept
CurrentKept == kept_frags(site[Len(site)])

\* C8, as stated: the author URL of each kept fragment with an author link is
\* the link joined to page_url, the URL of the page being processed.
C8_JoinedToPageUrl ==
    \A i \in DOMAIN author_urls :
        select_author_link(CurrentKept[i]) # NoHref
        => author_urls[i] = urljoin(page_url, select_author_link(CurrentKept[i]))

\* C8, amended: the author URL of each kept fragment with an author link is
\* the link joined to Config.BASE_URL, whatever the URL of the page.
C8_JoinedToBaseUrl ==
    \A i \in DOMAIN author_urls :
        select_author_link(CurrentKept[i]) # NoHref
        => author_urls[i] = urljoin(BASE_URL, select_author_link(CurrentKept[i]))

\* a page served from another host than BASE_URL's whose fragment has an
\* author link
C8_Witness ==
    /\ pc = "gather"
    /\ page_url.host = OtherHost
    /\ \E i \in DOMAIN author_urls :
          /\ select_author_link(CurrentKept[i]) # NoHref
          /\ author_urls[i].host = BASE_URL.host

\* C9: scrape_quotes_page has returned only with every get_author_info call it
\* issued completed, and its i-th record is the i-th kept fragment's text,
\* author name and tags with the AuthorInfo returned for that fragment's
\* author URL.
C9_RecordsInFragmentOrder ==
    (pc \in {"loop", "done"} /\ Len(page_quotes) > 0)
    => LET fs == CurrentKept
           n == Len(fs) IN
       /\ Len(page_quotes) = n
       /\ Len(author_urls) = n
       /\ Len(quotes) >= n
       /\ \A i \in 1..n :
             LET q == quotes[Len(quotes) - n + i] IN
             /\ calls[i].pc = "done"
             /\ q = page_quotes[i]
             /\ q.quote_text = fs[i].text
             /\ q.author_name = fs[i].author
             /\ q.tags = fs[i].tags
             /\ author_urls[i] = author_url_of(page_url, fs[i])
             /\ q = update(q, calls[i].info)
             /\ IF author_urls[i] = NoUrl THEN calls[i].info = default_info
                ELSE /\ calls[i].info = author_cache[author_urls[i]]
                     /\ calls[i].info \in
                           {default_info, parse_author(Body(author_urls[i], 1))}

\* a page of two fragments with different authors has been assembled, the
\* second fragment's fetch having been started before the first one's
C9_Witness ==
    /\ pc = "loop"
    /\ Len(page_quotes) = 2
    /\ page_quotes[1].author_full_name = "Bob B"
    /\ page_quotes[2].author_full_name = "Ann A"
    /\ calls[1].task # 0 /\ calls[2].task # 0
    /\ calls[2].task < calls[1].task

\* the URL of page i of the chain: the start URL, then each next link joined
\* to the URL of the page it stands on
RECURSIVE ChainUrl(_)
ChainUrl(i) ==
    IF i = 1 THEN BASE_URL ELSE urljoin(ChainUrl(i - 1), site[i - 1].next)

\* the info the run resolved for an author URL
ResolvedInfo(u) == IF u = NoUrl THEN default_info ELSE author_cache[u]

\* the records of page i: one per kept fragment, in document order
RecordsOf(i) ==
    LET fs == kept_frags(site[i]) IN
    [j \in 1..Len(fs) |->
        update(new_quote(fs[j]), ResolvedInfo(author_url_of(ChainUrl(i), fs[j])))]

RECURSIVE RecordsUpTo(_)
RecordsUpTo(n) == IF n = 0 THEN <<>> ELSE RecordsUpTo(n - 1) \o RecordsOf(n)

IsPageFetch(f) == f.kind = "page"

\* the page fetches made so far, in order
PageFetches == SelectSeq(fetchers, IsPageFetch)

\* the whole chain was served: its last page, the one without a next link
ChainServed == Len(site) >= 1 /\ site[Len(site)].next = NoHref

\* C10: when scrape_all_quotes returns after a chain of N pages was served
\* whole, it has made exactly N page fetches, of the chain's URLs in chain
\* order, and its result is the concatenation of the N pages' records in page
\* order.
C10_ChainCrawledOnce ==
    (pc = "done" /\ ChainServed)
    => /\ Len(PageFetches) = Len(site)
       /\ \A i \in 1..Len(site) : PageFetches[i].url = ChainUrl(i)
       /\ quotes = RecordsUpTo(Len(site))

\* the crawl of a chain of two pages has returned their records
C10_Witness ==
    /\ pc = "done"
    /\ ChainServed
    /\ Len(site) = 2
    /\ Len(quotes) >= 4

\* a page fetch has failed: a page fetch was made that served no page
PageFetchFailed == pc \in {"loop", "done"} /\ Len(PageFetches) > Len(site)

\* C11: when the fetch of a listing page fails, scrape_quotes_page hands back
\* no record and no next page and has started no author resolution, and the
\* crawl ends with exactly the records of the pages processed before.
C11_FailedPageEndsCrawl ==
    PageFetchFailed
    => /\ next_page_url = NoUrl
       /\ Len(PageFetches) = Len(site) + 1
       /\ page_fetch = Len(fetchers)
       /\ page_quotes = <<>> /\ author_urls = <<>>
       /\ \A i \in DOMAIN calls : calls[i] = IdleCall
       /\ \A k \in DOMAIN fetchers : fetchers[k].pc = "released"
       /\ quotes = RecordsUpTo(Len(site))

\* the crawl has returned the first page's records after the second page's
\* fetch failed
C11_Witness ==
    /\ pc = "done"
    /\ Len(site) = 1 /\ Len(PageFetches) = 2
    /\ Len(quotes) >= 2

\* C12: whatever configuration Config.validate lets through, and whatever
\* failures the page and author fetches meet, scrape_all_quotes eventually
\* returns.
C12_CrawlCompletes == <>(pc = "done")

\* the crawl does return whenever the semaphore has at least one slot
CrawlCompletesWithSlots == (max_concurrent >= 1) => <>(pc = "done")


\* a fetch_html call that has not returned yet
FetchActive(k) == fetchers[k].pc \notin {"done", "released"}

\* a get_author_info call that has been issued and has not returned yet
CallActive(i) == calls[i].pc \notin {"idle", "done"}

\* C13: listing pages are processed strictly one after another.  While the
\* fetch of a listing page is in progress it is the only fetch in progress
\* and no author resolution is in progress; an author fetch is in progress
\* only while its own page, already fetched, is gathering; and between two
\* pages every author resolution of the page before has returned.
C13_PagesSequential ==
    /\ \A k \in DOMAIN fetchers :
          (IsPageFetch(fetchers[k]) /\ FetchActive(k))
          => /\ pc = "fetch" /\ k = page_fetch
             /\ \A j \in DOMAIN fetchers : j # k => fetchers[j].pc = "released"
             /\ \A i \in DOMAIN calls : calls[i] = IdleCall
    /\ \A k \in DOMAIN fetchers :
          (~IsPageFetch(fetchers[k]) /\ fetchers[k].pc # "released")
          => /\ pc = "gather" /\ k > page_fetch
             /\ fetchers[page_fetch].pc = "done"
             /\ \E i \in 1..Len(author_urls) : author_urls[i] = fetchers[k].url
    /\ pc # "gather" => \A i \in DOMAIN calls : ~CallActive(i)
    /\ \A k \in DOMAIN fetchers :
          (IsPageFetch(fetchers[k]) /\ fetchers[k].pc # "released")
          => k = page_fetch

\* the second page is being fetched after the author fetches of the first
\* page have all returned
C13_Witness ==
    /\ pc = "fetch" /\ Len(site) = 1
    /\ fetchers[page_fetch].pc = "get"
    /\ \E k \in DOMAIN fetchers : ~IsPageFetch(fetchers[k])
    /\ Len(quotes) >= 2


\* get_author_info call i was made with an absent author URL
AbsentCall(i) == i <= Len(author_urls) /\ author_urls[i] = NoUrl

\* the step call i takes when it was given an absent URL: it returns the
\* all-absent info at once, without a task, the lock, the cache or the registry
AbsentCallStep ==
    \A i \in DOMAIN calls :
        (AbsentCall(i) /\ calls[i].pc = "start" /\ calls'[i] # calls[i])
        => /\ calls'[i] = [pc |-> "done", task |-> 0, info |-> default_info]
           /\ UNCHANGED <<fetchers, author_cache, author_inflight,
                          author_cache_lock, semaphore>>

\* an absent URL never holds the lock, and is never fetched, cached or
\* registered as in flight
AbsentNeverResolved ==
    /\ \A i \in DOMAIN calls :
          AbsentCall(i) => /\ calls[i].pc \in {"idle", "start", "done"}
                           /\ author_cache_lock # i
    /\ AuthorFetches(NoUrl) = {}
    /\ NoUrl \notin DOMAIN author_cache
    /\ NoUrl \notin DOMAIN author_inflight

\* C14: get_author_info with an absent author URL returns the all-absent
\* AuthorInfo in one step, starts no fetch, does not take the cache lock, and
\* leaves the author cache and the in-flight registry as they were.
C14_AbsentUrlNoEffect == []AbsentNeverResolved /\ [][AbsentCallStep]_vars

\* a call with an absent URL has returned while a call of the same page is
\* resolving a present URL
C14_Witness ==
    /\ pc = "gather"
    /\ \E i \in DOMAIN calls : AbsentCall(i) /\ calls[i].pc = "done"
    /\ \E j \in DOMAIN calls : calls[j].pc = "await"


\* the author URLs the pages served can lead to
AuthorUrls ==
    UNION { { author_url_of(BASE_URL, p[i]) : i \in { j \in DOMAIN p : kept(p[j]) } }
            : p \in PageFrags } \ {NoUrl}

\* the registry holds only tasks of the page being gathered, each under the
\* URL it fetches
InflightOfThisPage ==
    /\ pc # "gather" => DOMAIN author_inflight = {}
    /\ \A u \in DOMAIN author_inflight :
          /\ author_inflight[u] \in AuthorFetches(u)
          /\ fetchers[author_inflight[u]].pc # "released"

Complete(page) ==
    { j \in DOMAIN page.frags :
        page.frags[j].text # None /\ page.frags[j].author # None }

\* the number of complete fragments on the first n pages served
RECURSIVE CompleteUpTo(_)
CompleteUpTo(n) ==
    IF n = 0 THEN 0 ELSE CompleteUpTo(n - 1) + Cardinality(Complete(site[n]))

\* the get_author_info calls issued for the page being gathered
Issued == { i \in DOMAIN calls : calls[i].pc # "idle" }

\* C16: a page whose fetch succeeded yields exactly one record per fragment
\* that has both a text element and an author-name element, complete
\* fragments after an incomplete one included; one author resolution is
\* issued per record and none for an incomplete fragment, whose author link is
\* never fetched on its account.
C16_OneRecordPerCompleteFragment ==
    /\ pc = "gather" =>
          LET page == site[Len(site)] IN
          /\ Len(page_quotes) = Cardinality(Complete(page))
          /\ Len(author_urls) = Cardinality(Complete(page))
          /\ Issued = 1..Cardinality(Complete(page))
          /\ { page_quotes[i].quote_text : i \in DOMAIN page_quotes }
                = { page.frags[j].text : j \in Complete(page) }
          /\ \A k \in DOMAIN fetchers :
                (fetchers[k].kind = "author" /\ fetchers[k].pc # "released")
                => \E j \in Complete(page) :
                      author_url_of(page_url, page.frags[j]) = fetchers[k].url
    /\ pc \in {"loop", "done"} => Len(quotes) = CompleteUpTo(Len(site))

\* a page of four fragments, the second incomplete, has yielded three records
C16_Witness ==
    /\ pc = "loop" /\ Len(site) = 1
    /\ Len(site[1].frags) = 4
    /\ Cardinality(Complete(site[1])) = 3
    /\ 2 \notin Complete(site[1])
    /\ Len(quotes) = 3


\* the URL u, once its resolution was started, is in the registry or the cache
InflightOrCached(u) ==
    AuthorFetches(u) # {} =>
        u \in DOMAIN author_inflight \/ u \in DOMAIN author_cache

\* C17 as stated: once the resolution of an author URL has been started,
\* every state in which the cache lock is free has the URL in the in-flight
\* registry or in the author cache.
C17_InflightOrCachedWhenUnlocked ==
    author_cache_lock = 0 => \A u \in AuthorUrls : InflightOrCached(u)

\* C17: once the resolution of an author URL has been started, the URL is in
\* the in-flight registry or in the author cache in every state in which
\* another coroutine can run, and whenever a get_author_info call looks the
\* URL up under the lock; the entry is popped and the value published in two
\* lock sections with no suspension point between them.
C17_InflightOrCachedWhenObserved ==
    /\ AllSuspended => \A u \in AuthorUrls : InflightOrCached(u)
    /\ \A i \in DOMAIN calls :
          calls[i].pc = "locked1" => InflightOrCached(author_urls[i])

\* a waiter has popped the entry and published the value while another call
\* for the same URL has still to resume
C17_Witness ==
    /\ AllSuspended
    /\ \E i, j \in DOMAIN calls :
          /\ i # j
          /\ j <= Len(author_urls) /\ i <= Len(author_urls)
          /\ author_urls[i] = author_urls[j]
          /\ calls[i].pc = "done" /\ calls[i].task # 0
          /\ calls[j].pc = "await" /\ calls[j].task = calls[i].task
          /\ author_urls[i] \in DOMAIN author_cache
          /\ author_urls[i] \notin DOMAIN author_inflight


\* every entry of the author cache is kept, with its value, by the step
CacheKept ==
    \A u \in DOMAIN author_cache :
        u \in DOMAIN author_cache' /\ author_cache'[u] = author_cache[u]

\* C18: the author cache only grows during a crawl: no step removes an
\* entry or changes the value of an entry, the publishing step of a second
\* waiter on the same in-flight fetch included.
C18_CacheOnlyGrows == [][CacheKept]_vars

\* two waiters on the same fetch have both published, the second onto the
\* entry the first one made
C18_Witness ==
    /\ pc = "gather"
    /\ \E i, j \in 1..Len(author_urls) :
          /\ i # j
          /\ calls[i].pc = "done" /\ calls[j].pc = "done"
          /\ calls[i].task # 0 /\ calls[i].task = calls[j].task
          /\ author_urls[i] \in DOMAIN author_cache
          /\ author_cache[author_urls[i]] = calls[i].info


\* the place of log entry p within its attempt: 0 the rate-limit delay, 1 the
\* outcome of the GET, 2 the backoff delay; and the number of that attempt
Phase(p) == (p - 1) % 3
AttemptOf(p) == (p - 1) \div 3 + 1

\* the delays and outcomes of a fetch_html call come in the order
\* rate delay, outcome, backoff delay, attempt after attempt
DelaysInOrder(f) ==
    \A p \in DOMAIN f.log :
        LET e == f.log[p]
            n == AttemptOf(p) IN
        /\ n <= max_retries
        /\ Phase(p) = 0 => e = Event("rate", n)
        /\ Phase(p) = 1 => /\ IsResult(e) /\ e.n = n
                           /\ p < Len(f.log) => e.ev = "error"
        /\ Phase(p) = 2 => /\ e = Event("backoff", n)
                           /\ f.log[p - 1] = Event("error", n)
                           /\ n < max_retries

\* where the call stands agrees with the delays it has taken: it waits for
\* or holds a semaphore slot only after the rate delay of its attempt
DelaysTaken(f) ==
    /\ f.pc = "sleep" => Len(f.log) = 3 * (f.attempt - 1)
    /\ f.pc \in {"acquire", "get"}
       => /\ Len(f.log) = 3 * (f.attempt - 1) + 1
          /\ f.log[Len(f.log)] = Event("rate", f.attempt)
    /\ f.pc = "backoff"
       => /\ Len(f.log) = 3 * (f.attempt - 1) + 2
          /\ f.log[Len(f.log)] = Event("error", f.attempt)
          /\ f.attempt < max_retries
    /\ f.pc = "done"
       => /\ Len(f.log) = 3 * (f.attempt - 1) + 2
          /\ IsResult(f.log[Len(f.log)])

\* C19: in fetch_html every attempt, the first included, follows a rate-limit
\* delay taken before the semaphore slot is asked for; a transport failure on
\* attempt k that is not the last is followed by a backoff delay of k time
\* units and then by the rate-limit delay of attempt k+1; nothing follows the
\* last attempt.
C19_DelaysBeforeAttempts ==
    \A k \in DOMAIN fetchers :
        fetchers[k].pc # "released"
        => DelaysInOrder(fetchers[k]) /\ DelaysTaken(fetchers[k])

\* the last attempt is in flight after backoffs of 1 and of 2 time units and
\* three rate-limit delays
C19_Witness ==
    \E k \in DOMAIN fetchers :
        /\ fetchers[k].pc = "get"
        /\ fetchers[k].attempt = max_retries
        /\ fetchers[k].log =
              << Event("rate", 1), Event("error", 1), Event("backoff", 1),
                 Event("rate", 2), Event("error", 2), Event("backoff", 2),
                 Event("rate", 3) >>


\* get_author_info call i has returned for a present author URL
ReturnedPresent(i) ==
    i <= Len(author_urls) /\ author_urls[i] # NoUrl /\ calls[i].pc = "done"

\* C20: whenever get_author_info has returned for a present author URL, the
\* value it returned is the value the author cache holds for that URL, be it
\* the call that fetched, a waiter on the fetch or a later cache hit; the
\* records of the same author therefore carry the same author fields on
\* every page.
C20_ReturnedIsCached ==
    /\ \A i \in DOMAIN calls :
          ReturnedPresent(i)
          => /\ author_urls[i] \in DOMAIN author_cache
             /\ calls[i].info = author_cache[author_urls[i]]
    /\ pc \in {"loop", "done"} =>
          \A i \in 1..Len(site) :
              SubSeq(quotes, Len(RecordsUpTo(i - 1)) + 1, Len(RecordsUpTo(i)))
                  = RecordsOf(i)

\* on the second page a call returned the parsed info from the cache, which a
\* call of the first page had awaited and published
C20_Witness ==
    /\ pc = "gather" /\ Len(site) = 2
    /\ \E i \in DOMAIN calls :
          /\ ReturnedPresent(i)
          /\ calls[i].task = 0
          /\ calls[i].info # default_info
          /\ \E j \in DOMAIN quotes :
                /\ quotes[j].author_full_name = calls[i].info.author_full_name
                /\ quotes[j].author_born_date = calls[i].info.author_born_date

====
